---- MODULE Spec2Model ----
(***************************************************************************)
(* Model of src/main.py: the POST /analyze-letter/ handler analyze_letter, *)
(* its content-type check, the rasterisation loop, the single call to the  *)
(* external model, the decoding of the reply (strip, two replace calls,    *)
(* json.loads) and the two except clauses that map failures to HTTP 500.   *)
(*                                                                         *)
(* Texts are tuples of one-character strings, so that strip, replace and   *)
(* json.loads are computed character by character as Python computes them. *)
(***************************************************************************)
EXTENDS Integers, Sequences, FiniteSets, TLC

(***************************************************************************)
(* Bounds of the model.                                                    *)
(***************************************************************************)
\* Number of requests in flight at once.
NumRequests == 2
\* Largest page count of an uploaded PDF.
MaxPages == 2
\* Longest arbitrary (unstructured) reply text enumerated character by character.
MaxNoise == 3

(***************************************************************************)
(* Text primitives: str.strip and str.replace(old, "").                    *)
(***************************************************************************)
\* The characters str.strip() removes and json.loads skips between tokens.
Whitespace == {" ", "\n"}

\* The backtick character (a backtick cannot be written in a string literal).
BQ == "backtick"

\* The two literals the handler removes from the reply (main.py line 106).
FenceJson == <<BQ, BQ, BQ, "j", "s", "o", "n">>
Fence == <<BQ, BQ, BQ>>

Drop(s, k) == SubSeq(s, k + 1, Len(s))

Take(s, k) == SubSeq(s, 1, k)

StartsWith(s, p) == Len(s) >= Len(p) /\ Take(s, Len(p)) = p

RECURSIVE LStrip(_)
LStrip(s) ==
    IF s # <<>> /\ Head(s) \in Whitespace THEN LStrip(Tail(s)) ELSE s

RECURSIVE RStrip(_)
RStrip(s) ==
    IF s # <<>> /\ s[Len(s)] \in Whitespace THEN RStrip(Take(s, Len(s) - 1)) ELSE s

\* str.strip(): leading and trailing whitespace removed.
strip(s) == RStrip(LStrip(s))

\* str.replace(old, ""): every non-overlapping occurrence of old, scanning
\* left to right, is removed; a single pass (the result is not rescanned).
RECURSIVE replace(_, _)
replace(s, old) ==
    IF s = <<>> THEN <<>>
    ELSE IF StartsWith(s, old) THEN replace(Drop(s, Len(old)), old)
    ELSE <<Head(s)>> \o replace(Tail(s), old)

\* s contains old as a contiguous substring.
Contains(s, old) ==
    \E i \in 1..(Len(s) - Len(old) + 1) : SubSeq(s, i, i + Len(old) - 1) = old

(***************************************************************************)
(* json.loads, by recursive descent as json.decoder / json.scanner do it.  *)
(* Python values are tagged records:                                       *)
(*   None  [t |-> "None"]          int   [t |-> "int", n |-> 11]           *)
(*   nan   [t |-> "nan"]           str   [t |-> "str", s |-> <<chars>>]    *)
(*   list  [t |-> "list", items |-> <<values>>]                            *)
(*   dict  [t |-> "dict", d |-> function from keys to values]              *)
(* A parse step returns [ok, v, i]: success, the value, the next index.    *)
(***************************************************************************)
Digits == {"0", "1"}

DigitValue(c) == IF c = "1" THEN 1 ELSE 0

Fail == [ok |-> FALSE]

Ok(v, i) == [ok |-> TRUE, v |-> v, i |-> i]

At(s, i) == IF i >= 1 /\ i <= Len(s) THEN s[i] ELSE "EOF"

\* s has the literal lit starting at index i.
HasLit(s, i, lit) ==
    i + Len(lit) - 1 <= Len(s) /\ SubSeq(s, i, i + Len(lit) - 1) = lit

\* WHITESPACE.match(s, i).end(): first index at or after i that is no whitespace.
RECURSIVE SkipWs(_, _)
SkipWs(s, i) == IF At(s, i) \in Whitespace THEN SkipWs(s, i + 1) ELSE i

\* py_scanstring in strict mode, i the index after the opening quote: the
\* characters up to the closing quote; a control character (here the newline)
\* or the end of the text inside the string is an error.
RECURSIVE ScanString(_, _, _)
ScanString(s, i, acc) ==
    IF i > Len(s) THEN Fail
    ELSE IF s[i] = "\"" THEN Ok(acc, i + 1)
    ELSE IF s[i] = "\n" THEN Fail
    ELSE ScanString(s, i + 1, Append(acc, s[i]))

\* NUMBER_RE: (-?(?:0|[1-9]\d*)), the integer part; the run of digits after
\* a leading non-zero digit, a lone 0 otherwise.
RECURSIVE ScanDigits(_, _, _)
ScanDigits(s, i, n) ==
    IF At(s, i) \in Digits THEN ScanDigits(s, i + 1, 10 * n + DigitValue(s[i]))
    ELSE Ok([t |-> "int", n |-> n], i)

ScanNumber(s, i) ==
    IF s[i] = "0" THEN Ok([t |-> "int", n |-> 0], i + 1)
    ELSE ScanDigits(s, i, 0)

RECURSIVE ScanOnce(_, _, _)
RECURSIVE ParseMembers(_, _, _, _)
RECURSIVE ParseItems(_, _, _, _)

\* JSONObject after "{" and JSONArray after "[", i the index after the bracket.
JSONObject(s, i, nan) ==
    LET j == SkipWs(s, i)
    IN  IF At(s, j) = "}" THEN Ok([t |-> "dict", d |-> <<>>], j + 1)
        ELSE ParseMembers(s, j, <<>>, nan)

JSONArray(s, i, nan) ==
    LET j == SkipWs(s, i)
    IN  IF At(s, j) = "]" THEN Ok([t |-> "list", items |-> <<>>], j + 1)
        ELSE ParseItems(s, j, <<>>, nan)

\* One member "key" : value at index i, then "," and the next or "}".
\* dict(pairs): a repeated key keeps its last value.
ParseMembers(s, i, d, nan) ==
    IF At(s, i) # "\"" THEN Fail
    ELSE LET k == ScanString(s, i + 1, <<>>)
         IN  IF ~k.ok THEN Fail
             ELSE LET c == SkipWs(s, k.i)
                  IN  IF At(s, c) # ":" THEN Fail
                      ELSE LET v == ScanOnce(s, SkipWs(s, c + 1), nan)
                           IN  IF ~v.ok THEN Fail
                               ELSE LET e == SkipWs(s, v.i)
                                        d2 == (k.v :> v.v) @@ d
                                    IN  IF At(s, e) = "}"
                                        THEN Ok([t |-> "dict", d |-> d2], e + 1)
                                        ELSE IF At(s, e) = ","
                                        THEN ParseMembers(s, SkipWs(s, e + 1), d2, nan)
                                        ELSE Fail

\* One array item at index i, then "," and the next or "]".
ParseItems(s, i, items, nan) ==
    LET v == ScanOnce(s, i, nan)
    IN  IF ~v.ok THEN Fail
        ELSE LET e == SkipWs(s, v.i)
                 items2 == Append(items, v.v)
             IN  IF At(s, e) = "]" THEN Ok([t |-> "list", items |-> items2], e + 1)
                 ELSE IF At(s, e) = "," THEN ParseItems(s, SkipWs(s, e + 1), items2, nan)
                 ELSE Fail

\* scanner._scan_once at index i. nan says whether the constant NaN is
\* accepted: json.loads accepts it (parse_constant), RFC 8259 does not.
ScanOnce(s, i, nan) ==
    LET c == At(s, i)
    IN  IF c = "\"" THEN
            LET r == ScanString(s, i + 1, <<>>)
            IN  IF r.ok THEN Ok([t |-> "str", s |-> r.v], r.i) ELSE Fail
        ELSE IF c = "{" THEN JSONObject(s, i + 1, nan)
        ELSE IF c = "[" THEN JSONArray(s, i + 1, nan)
        ELSE IF HasLit(s, i, <<"n", "u", "l", "l">>) THEN Ok([t |-> "None"], i + 4)
        ELSE IF c \in Digits THEN ScanNumber(s, i)
        ELSE IF nan /\ HasLit(s, i, <<"N", "a", "N">>) THEN Ok([t |-> "nan"], i + 3)
        ELSE Fail

\* JSONDecoder.decode: leading whitespace, one value, trailing whitespace,
\* and nothing else ("Extra data" otherwise).
Decode(s, nan) ==
    LET r == ScanOnce(s, SkipWs(s, 1), nan)
    IN  IF ~r.ok THEN Fail
        ELSE IF SkipWs(s, r.i) # Len(s) + 1 THEN Fail
        ELSE Ok(r.v, r.i)

\* json.loads(s): the value, or a JSONDecodeError.
json_loads(s) == Decode(s, TRUE)


\* The value contains a float that json.dumps(allow_nan=False) refuses.
RECURSIVE HasNaN(_)
HasNaN(v) ==
    IF v.t = "nan" THEN TRUE
    ELSE IF v.t = "list" THEN \E k \in 1..Len(v.items) : HasNaN(v.items[k])
    ELSE IF v.t = "dict" THEN \E k \in DOMAIN v.d : HasNaN(v.d[k])
    ELSE FALSE

(***************************************************************************)
(* The inputs of a request: the upload (declared content type and bytes)   *)
(* and what the external calls do.                                         *)
(***************************************************************************)
Requests == 1..NumRequests

\* What a page or an image shows.
PageContents == {"A", "B"}

\* The bytes of an upload, by what they encode: a PDF with the given pages,
\* an image (one element: its pixels), or bytes no decoder accepts.
PdfBytes(pages) == [fmt |-> "pdf", pages |-> pages]

ImageBytes(pixels) == [fmt |-> "image", pages |-> <<pixels>>]

Garbage == [fmt |-> "garbage", pages |-> <<>>]

RECURSIVE SeqsUpTo(_, _)
SeqsUpTo(S, n) ==
    IF n = 0 THEN {<<>>}
    ELSE LET shorter == SeqsUpTo(S, n - 1)
         IN  shorter \cup {Append(q, x) : q \in {t \in shorter : Len(t) = n - 1}, x \in S}

AllBytes ==
    {PdfBytes(pages) : pages \in SeqsUpTo(PageContents, MaxPages)}
        \cup {ImageBytes(p) : p \in PageContents} \cup {Garbage}

\* Declared content types: the three the handler accepts and one it does not.
ContentTypes == {"application/pdf", "image/jpeg", "image/png", "text/plain"}

UploadFile(ct, bytes) == [content_type |-> ct, content |-> bytes]

AllUploads == {UploadFile(ct, b) : ct \in ContentTypes, b \in AllBytes}

\* The list the handler tests the declared content type against (line 72).
SupportedTypes == {"application/pdf", "image/jpeg", "image/png"}

\* The fixed instruction text (lines 30-61), as one opaque value.
SYSTEM_PROMPT == "SYSTEM_PROMPT"

\* page.get_pixmap(dpi=300) -> tobytes("png") -> PIL.Image.open: the image of a page.
PagePixmap(page) == [pixels |-> page, from |-> "pixmap dpi=300"]

\* PIL.Image.open(io.BytesIO(file_content)): the decoded upload.
ImageOpen(bytes) == [pixels |-> bytes.pages[1], from |-> "upload"]

\* Exceptions are [cls, msg]: the class the except clauses dispatch on and str(e).
Exc(cls, msg) == [cls |-> cls, msg |-> msg]

ReadError == Exc("OSError", "read failed")

PdfOpenError == Exc("FileDataError", "Failed to open stream")

PixmapError == Exc("RuntimeError", "cannot render page")

ImageOpenError == Exc("UnidentifiedImageError", "cannot identify image file")

NoTextError == Exc("ValueError", "response.text requires a valid Part")

JSONDecodeError == Exc("JSONDecodeError", "Expecting value")

NaNError == Exc("ValueError", "Out of range float values are not JSON compliant")

\* What generate_content raises: google.api_core errors of the provider call.
ProviderErrors ==
    {Exc("ResourceExhausted", "429 Quota exceeded"),
     Exc("ServiceUnavailable", "503 The model is overloaded")}

\* The response object of generate_content: its text, or no text part at all
\* (reading response.text then raises ValueError). Unbound: not yet assigned.
Response(t) == [bound |-> TRUE, has_text |-> TRUE, text |-> t]

NoTextResponse == [bound |-> TRUE, has_text |-> FALSE, text |-> <<>>]

Unbound == [bound |-> FALSE, has_text |-> FALSE, text |-> <<>>]

(***************************************************************************)
(* HTTP outcomes. A detail is a tuple of parts; Lit is literal text of the *)
(* handler or an exception message, Raw is text received from the model.   *)
(***************************************************************************)
Lit(str) == [lit |-> str]

Raw(text) == [raw |-> text]

JSONResponse(content) == [status |-> 200, body |-> content, detail |-> <<>>]

HTTPException(status_code, detail) ==
    [status |-> status_code, body |-> [t |-> "None"], detail |-> detail]

\* What the framework answers when an exception leaves the handler.
ServerError == HTTPException(500, <<Lit("Internal Server Error")>>)

\* Line 73, were it inside the try block: the generic clause would turn it into a 500.
InvalidFileTypeCaught ==
    HTTPException(500, <<Lit("An internal server error occurred: "), Lit("400: Invalid file type.")>>)

\* Line 73.
InvalidFileType == HTTPException(400, <<Lit("Invalid file type.")>>)

\* Lines 112-114 with the raw reply put into the detail.
InvalidFormatWithText(response) ==
    HTTPException(500, <<Lit("The AI model returned an invalid format."), Raw(response.text)>>)

\* Lines 112-114: the clause for json.JSONDecodeError. Its print reads
\* response.text, so with response unbound the clause itself raises.
InvalidFormat(response) ==
    IF response.bound
    THEN HTTPException(500, <<Lit("The AI model returned an invalid format.")>>)
    ELSE ServerError

\* Lines 116-118 answering with a body instead of raising.
InternalErrorReturned(e) == JSONResponse([t |-> "dict", d |-> <<>>])

\* Lines 116-118 without str(e) in the detail.
InternalErrorNoMessage(e) == HTTPException(500, <<Lit("An internal server error occurred.")>>)

\* Lines 116-118: the clause for every other exception.
InternalError(e) ==
    HTTPException(500, <<Lit("An internal server error occurred: "), Lit(e.msg)>>)

\* Lines 112-118: the except clauses, tried in order.
Except(e, response) ==
    IF e.cls = "JSONDecodeError" THEN InvalidFormat(response) ELSE InternalError(e)

\* Line 106 with the two replace calls in the other order.
StripFencesSwapped(text) == replace(replace(strip(text), Fence), FenceJson)

\* Line 106: response.text.strip().replace("```json", "").replace("```", "").
StripFences(text) == replace(replace(strip(text), FenceJson), Fence)

NoExc == Exc("", "")

\* Lines 106-109: the exception raised while decoding the response, NoExc if
\* none: response.text without a text part, json.loads on text that is no
\* JSON, JSONResponse on a value json.dumps(allow_nan=False) refuses.
DecodeRaises(response) ==
    IF ~response.has_text THEN NoTextError
    ELSE LET analysis_result == json_loads(StripFences(response.text))
         IN  IF ~analysis_result.ok THEN JSONDecodeError
             ELSE IF HasNaN(analysis_result.v) THEN NaNError
             ELSE NoExc

\* Lines 106-118 on a response: the HTTP outcome of decoding it.
DecodeOutcome(response) ==
    LET e == DecodeRaises(response)
    IN  IF e # NoExc THEN Except(e, response)
        ELSE JSONResponse(json_loads(StripFences(response.text)).v)

(***************************************************************************)
(* The reply texts the external model is taken to return.                  *)
(***************************************************************************)
Q == "\""

\* JSON texts without any backtick.
EmptyObject == <<"{", "}">>
ObjectA1 == <<"{", Q, "a", Q, ":", "1", "}">>
ObjectSpaced == <<"{", " ", Q, "a", Q, " ", ":", "\n", "1", "0", " ", "}">>
ObjectNull == <<"{", Q, "a", Q, ":", "n", "u", "l", "l", "}">>
ObjectNested == <<"{", Q, "a", Q, ":", "[", "1", ",", "{", "}", "]", "}">>
ObjectTwoKeys == <<"{", Q, "a", Q, ":", "1", ",", Q, "j", Q, ":", Q, "s", "o", "n", Q, "}">>
ObjectSameKey == <<"{", Q, "a", Q, ":", "1", ",", Q, "a", Q, ":", Q, Q, "}">>
ArrayOne == <<"[", "1", "]">>
StringA == <<Q, "a", Q>>
NumberOne == <<"1">>
NullText == <<"n", "u", "l", "l">>

\* JSON objects with a fence marker, or part of one, inside a string value.
ObjectFenceValue == <<"{", Q, "a", Q, ":", Q, BQ, BQ, BQ, Q, "}">>
ObjectFenceJsonValue == <<"{", Q, "a", Q, ":", Q, BQ, BQ, BQ, "j", "s", "o", "n", Q, "}">>
ObjectTickValue == <<"{", Q, "a", Q, ":", Q, BQ, BQ, Q, "}">>

\* Texts json.loads accepts although they are no JSON (the constant NaN).
NaNText == <<"N", "a", "N">>
ObjectNaN == <<"{", Q, "a", Q, ":", "N", "a", "N", "}">>

CleanObjects ==
    {EmptyObject, ObjectA1, ObjectSpaced, ObjectNull, ObjectNested, ObjectTwoKeys,
     ObjectSameKey, ObjectTickValue}

CleanNonObjects == {ArrayOne, StringA, NumberOne, NullText}

FencedObjects == {ObjectFenceValue, ObjectFenceJsonValue}

\* Ways the model wraps its answer: bare, in tagged fences (with and without
\* newlines and surrounding whitespace), in untagged fences.
Wrappers == {"bare", "tagged", "tagged lines", "tagged padded", "untagged lines"}

Wrap(w, j) ==
    CASE w = "bare" -> j
      [] w = "tagged" -> FenceJson \o j \o Fence
      [] w = "tagged lines" -> FenceJson \o <<"\n">> \o j \o <<"\n">> \o Fence
      [] w = "tagged padded" ->
            <<" ", "\n">> \o FenceJson \o <<"\n", " ">> \o j \o <<" ", "\n">> \o Fence \o <<"\n", " ">>
      [] w = "untagged lines" -> Fence \o <<"\n">> \o j \o <<"\n">> \o Fence

WrappedTexts ==
    {Wrap(w, j) : w \in Wrappers,
                  j \in CleanObjects \cup CleanNonObjects \cup FencedObjects \cup {NaNText, ObjectNaN}}

\* Truncated replies: every proper prefix of two wrapped objects.
Prefixes(t) == {Take(t, k) : k \in 0..(Len(t) - 1)}

TruncatedTexts ==
    Prefixes(Wrap("tagged lines", ObjectNested)) \cup Prefixes(Wrap("bare", ObjectFenceValue))

\* Arbitrary short replies, character by character.
NoiseChars == {"{", "}", Q, "1", "a", " ", BQ, ","}

NoiseTexts == SeqsUpTo(NoiseChars, MaxNoise)

AllTexts == WrappedTexts \cup TruncatedTexts \cup NoiseTexts

(***************************************************************************)
(* The handler analyze_letter as a state machine, one instance per request.*)
(***************************************************************************)
VARIABLES
    pc,             \* where each request is in analyze_letter
    file,           \* the UploadFile argument
    file_content,   \* local: the bytes read from the upload
    model_content,  \* local: the list sent to the model
    pdf_document,   \* local: the pages of the opened PDF
    i,              \* local: pages of pdf_document already rendered
    response,       \* local: what generate_content returned
    sent,           \* the HTTP responses sent for the request, in order
    calls,          \* the payloads generate_content was invoked with, in order
    opened,         \* how often a decoder (fitz.open, PIL.Image.open) was invoked
    replied,        \* the responses generate_content returned to the request
    raised          \* the exceptions raised inside the try block, with their stage

vars == <<pc, file, file_content, model_content, pdf_document, i, response,
          sent, calls, opened, replied, raised>>

NoFile == UploadFile("", [fmt |-> "none", pages |-> <<>>])

NoBytes == [fmt |-> "none", pages |-> <<>>]

Init ==
    /\ pc = [r \in Requests |-> "idle"]
    /\ file = [r \in Requests |-> NoFile]
    /\ file_content = [r \in Requests |-> NoBytes]
    /\ model_content = [r \in Requests |-> <<>>]
    /\ pdf_document = [r \in Requests |-> <<>>]
    /\ i = [r \in Requests |-> 0]
    /\ response = [r \in Requests |-> Unbound]
    /\ sent = [r \in Requests |-> <<>>]
    /\ calls = [r \in Requests |-> <<>>]
    /\ opened = [r \in Requests |-> 0]
    /\ replied = [r \in Requests |-> <<>>]
    /\ raised = [r \in Requests |-> <<>>]

\* The assignment, were the variable one module-level variable of all requests.
SetLocalShared(var, r, v) == [q \in DOMAIN var |-> v]

\* Assignment to a local variable of request r's invocation of the handler.

SetLocal(var, r, v) == [var EXCEPT ![r] = v]

\* list.insert(1, x) in place of list.append(x).
appendFront(list, x) == <<Head(list), x>> \o Tail(list)

\* list.append (lines 89 and 95).

append(list, x) == Append(list, x)

\* The request is accepted by the framework and the handler is entered.
Receive(r, uploads) ==
    /\ pc[r] = "idle"
    /\ \E f \in uploads : file' = [file EXCEPT ![r] = f]
    /\ pc' = [pc EXCEPT ![r] = "validate"]
    /\ UNCHANGED <<file_content, model_content, pdf_document, i, response,
                   sent, calls, opened, replied, raised>>

\* Lines 72-73: the content-type check, outside the try block.
ValidateContentType(r) ==
    /\ pc[r] = "validate"
    /\ IF file[r].content_type \notin SupportedTypes
       THEN /\ sent' = [sent EXCEPT ![r] = Append(@, InvalidFileType)]
            /\ pc' = [pc EXCEPT ![r] = "done"]
       ELSE /\ pc' = [pc EXCEPT ![r] = "read"]
            /\ UNCHANGED sent
    /\ UNCHANGED <<file, file_content, model_content, pdf_document, i, response,
                   calls, opened, replied, raised>>

\* An exception e raised inside the try block at the given stage: the except
\* clauses answer it and the handler ends (lines 112-118).
Raise(r, stage, e) ==
    /\ raised' = [raised EXCEPT ![r] = Append(@, [stage |-> stage, e |-> e])]
    /\ sent' = [sent EXCEPT ![r] = Append(@, Except(e, response[r]))]
    /\ pc' = [pc EXCEPT ![r] = "done"]

\* Lines 76-80: await file.read(), then the fresh list [SYSTEM_PROMPT] and the
\* branch on the declared content type.
ReadFile(r) ==
    /\ pc[r] = "read"
    /\ \/ /\ file_content' = SetLocal(file_content, r, file[r].content)
          /\ model_content' = SetLocal(model_content, r, <<SYSTEM_PROMPT>>)
          /\ pc' = [pc EXCEPT ![r] = IF file[r].content_type = "application/pdf"
                                     THEN "open_pdf" ELSE "open_image"]
          /\ UNCHANGED <<sent, raised>>
       \/ /\ Raise(r, "read", ReadError)
          /\ UNCHANGED <<file_content, model_content>>
    /\ UNCHANGED <<file, pdf_document, i, response, calls, opened, replied>>

\* Line 82: fitz.open(stream=file_content, filetype="pdf"); the loop of line
\* 84 is entered, or skipped at once when the document has no page.
OpenPdf(r) ==
    /\ pc[r] = "open_pdf"
    /\ opened' = [opened EXCEPT ![r] = @ + 1]
    /\ IF file_content[r].fmt = "pdf"
       THEN /\ pdf_document' = SetLocal(pdf_document, r, file_content[r].pages)
            /\ i' = SetLocal(i, r, 0)
            /\ pc' = [pc EXCEPT ![r] = IF Len(file_content[r].pages) = 0
                                       THEN "call" ELSE "render"]
            /\ UNCHANGED <<sent, raised>>
       ELSE /\ Raise(r, "rasterize", PdfOpenError)
            /\ UNCHANGED <<pdf_document, i>>
    /\ UNCHANGED <<file, file_content, model_content, response, calls, replied>>

\* Lines 84-91: one iteration of the loop over the pages, in document order.
RenderPage(r) ==
    /\ pc[r] = "render"
    /\ i[r] < Len(pdf_document[r])
    /\ \/ /\ model_content' =
                SetLocal(model_content, r,
                         append(model_content[r], PagePixmap(pdf_document[r][i[r] + 1])))
          /\ i' = SetLocal(i, r, i[r] + 1)
          /\ pc' = [pc EXCEPT ![r] = IF i[r] + 1 = Len(pdf_document[r])
                                     THEN "call" ELSE "render"]
          /\ UNCHANGED <<sent, raised>>
       \/ /\ Raise(r, "rasterize", PixmapError)
          /\ UNCHANGED <<model_content, i>>
    /\ UNCHANGED <<file, file_content, pdf_document, response, calls, opened, replied>>

\* Lines 93-95: a JPEG or PNG upload is decoded as one image.
OpenImage(r) ==
    /\ pc[r] = "open_image"
    /\ opened' = [opened EXCEPT ![r] = @ + 1]
    /\ IF file_content[r].fmt = "image"
       THEN /\ model_content' =
                  SetLocal(model_content, r,
                           append(model_content[r], ImageOpen(file_content[r])))
            /\ pc' = [pc EXCEPT ![r] = "call"]
            /\ UNCHANGED <<sent, raised>>
       ELSE /\ Raise(r, "rasterize", ImageOpenError)
            /\ UNCHANGED model_content
    /\ UNCHANGED <<file, file_content, pdf_document, i, response, calls, replied>>

\* Lines 98-103: the one call model.generate_content(model_content, ...). It
\* returns a response (with a text, or without any text part) or raises.
GenerateContent(r, texts) ==
    /\ pc[r] = "call"
    /\ calls' = [calls EXCEPT ![r] = Append(@, model_content[r])]
    /\ \/ /\ \E resp \in {Response(t) : t \in texts} \cup {NoTextResponse} :
                /\ response' = SetLocal(response, r, resp)
                /\ replied' = [replied EXCEPT ![r] = Append(@, resp)]
          /\ pc' = [pc EXCEPT ![r] = "decode"]
          /\ UNCHANGED <<sent, raised>>
       \/ /\ \E e \in ProviderErrors : Raise(r, "model", e)
          /\ UNCHANGED <<response, replied>>
    /\ UNCHANGED <<file, file_content, model_content, pdf_document, i, opened>>

\* Lines 105-118: the reply is decoded and returned, or an except clause
\* answers the failure.
DecodeResponse(r) ==
    /\ pc[r] = "decode"
    /\ LET e == DecodeRaises(response[r])
       IN  IF e # NoExc
           THEN Raise(r, "decode", e)
           ELSE /\ sent' = [sent EXCEPT ![r] = Append(@, DecodeOutcome(response[r]))]
                /\ pc' = [pc EXCEPT ![r] = "done"]
                /\ UNCHANGED raised
    /\ UNCHANGED <<file, file_content, model_content, pdf_document, i, response,
                   calls, opened, replied>>

Step(r, uploads, texts) ==
    \/ Receive(r, uploads)
    \/ ValidateContentType(r)
    \/ ReadFile(r)
    \/ OpenPdf(r)
    \/ RenderPage(r)
    \/ OpenImage(r)
    \/ GenerateContent(r, texts)
    \/ DecodeResponse(r)

\* One request, every upload and every reply text of the bounded sets.
Next == Step(1, AllUploads, AllTexts)

Spec == Init /\ [][Next]_vars

\* Concurrent requests, interleaved at every step, over a sample of inputs.
SampleUploads ==
    {UploadFile("application/pdf", PdfBytes(<<"A", "B">>)),
     UploadFile("application/pdf", PdfBytes(<<>>)),
     UploadFile("image/png", ImageBytes("B")),
     UploadFile("image/jpeg", Garbage),
     UploadFile("text/plain", ImageBytes("A"))}

SampleTexts == {ObjectA1, Wrap("tagged lines", EmptyObject), <<"a">>}

NextConcurrent == \E r \in Requests : Step(r, SampleUploads, SampleTexts)

SpecConcurrent == Init /\ [][NextConcurrent]_vars


(***************************************************************************)
(* The claims.                                                             *)
(***************************************************************************)
Done(r) == pc[r] = "done"

\* The one response of a finished request.
Outcome(r) == sent[r][1]

\* The images the payload of an upload must hold, written out from the
\* upload alone: one per page in page order, or the one decoded image (none
\* for bytes that are no image, which no decoder opens).
ExpectedImages(f) ==
    IF f.content_type = "application/pdf"
    THEN [n \in 1..Len(f.content.pages) |->
             [pixels |-> f.content.pages[n], from |-> "pixmap dpi=300"]]
    ELSE IF f.content.fmt = "image"
    THEN <<[pixels |-> f.content.pages[1], from |-> "upload"]>>
    ELSE <<>>

\* RFC 8259 validity of a text (NaN is no JSON), and the value it denotes.
IsValidJSON(t) == Decode(t, FALSE).ok

Denotes(t) == Decode(t, FALSE).v

\* C1: a request whose declared content type is none of application/pdf,
\* image/jpeg, image/png never reaches a decoder or the model, and ends with
\* exactly one response, an HTTP 400.
C1_UnsupportedTypeIs400 ==
    \A r \in Requests :
        (pc[r] # "idle"
            /\ file[r].content_type \notin {"application/pdf", "image/jpeg", "image/png"})
        => /\ opened[r] = 0
           /\ calls[r] = <<>>
           /\ model_content[r] = <<>>
           /\ pc[r] \in {"validate", "done"}
           /\ Done(r) => (Len(sent[r]) = 1 /\ Outcome(r).status = 400)

C1_Witness ==
    \E r \in Requests :
        /\ Done(r)
        /\ file[r].content_type = "text/plain"
        /\ file[r].content.fmt = "pdf"
        /\ sent[r] = <<InvalidFileType>>

\* C2: a PDF upload that opens and has no page is never sent to the model as
\* a payload of the instruction alone, and never ends with HTTP 200.
C2_EmptyPdfFails ==
    \A r \in Requests :
        (file[r].content_type = "application/pdf" /\ file_content[r] = PdfBytes(<<>>))
        => /\ \A k \in 1..Len(calls[r]) : Len(calls[r][k]) > 1
           /\ Done(r) => Outcome(r).status # 200

\* C3: a request has no response until it is finished and exactly one once it
\* is: a 200, a 400 or a 500; and never a 200 when the content-type check
\* failed or any stage inside the try block raised.
C3_ExactlyOneOutcome ==
    \A r \in Requests :
        /\ Len(sent[r]) = (IF Done(r) THEN 1 ELSE 0)
        /\ Len(raised[r]) <= 1
        /\ Done(r) =>
            /\ Outcome(r).status \in {200, 400, 500}
            /\ (Outcome(r).status = 200) <=>
                  (raised[r] = <<>> /\ file[r].content_type \in
                        {"application/pdf", "image/jpeg", "image/png"})
            /\ Outcome(r).status = 400 => raised[r] = <<>>
        /\ raised[r] # <<>> => Done(r)

C3_Witness ==
    \E r \in Requests :
        /\ Done(r)
        /\ Len(raised[r]) = 1
        /\ raised[r][1].stage = "rasterize"
        /\ Len(sent[r]) = 1
        /\ Outcome(r).status = 500

\* C4: the model is invoked at most once per request, and when that
\* invocation raises, the request ends at once with an HTTP 500 whose detail
\* includes the message of the exception.
C4_SingleAttempt ==
    \A r \in Requests :
        /\ Len(calls[r]) <= 1
        /\ \A k \in 1..Len(raised[r]) :
              raised[r][k].stage = "model"
              => /\ Len(calls[r]) = 1
                 /\ replied[r] = <<>>
                 /\ Done(r)
                 /\ Len(sent[r]) = 1
                 /\ Outcome(r).status = 500
                 /\ \E n \in 1..Len(Outcome(r).detail) :
                       Outcome(r).detail[n] = [lit |-> raised[r][k].e.msg]

C4_Witness ==
    \E r \in Requests :
        /\ Done(r)
        /\ Len(calls[r]) = 1
        /\ raised[r] = <<[stage |-> "model", e |-> Exc("ResourceExhausted", "429 Quota exceeded")]>>
        /\ Outcome(r).status = 500

\* C5: every payload the model is invoked with is the instruction text
\* followed by the images of the upload and nothing else: one image per page
\* of a PDF, in page order, or the one decoded image of a JPEG or PNG.
C5_PayloadInPageOrder ==
    \A r \in Requests :
        \A k \in 1..Len(calls[r]) :
            calls[r][k] = <<SYSTEM_PROMPT>> \o ExpectedImages(file[r])

C5_Witness ==
    \E r \in Requests :
        /\ file[r] = UploadFile("application/pdf", PdfBytes(<<"B", "A">>))
        /\ Len(calls[r]) = 1
        /\ Len(calls[r][1]) = 3
        /\ calls[r][1][2].pixels = "B"
        /\ calls[r][1][3].pixels = "A"

\* C6: when the reply text, stripped of whitespace and fences, is no valid
\* JSON, the request ends with an HTTP 500 (never a 200) whose detail is fixed
\* text of the handler and holds nothing of the reply.
C6_InvalidJsonIs500 ==
    \A r \in Requests :
        (Done(r) /\ replied[r] # <<>> /\ replied[r][1].has_text
            /\ ~IsValidJSON(StripFences(replied[r][1].text)))
        => /\ Len(sent[r]) = 1
           /\ Outcome(r).status = 500
           /\ Outcome(r).detail \in
                 {<<[lit |-> "The AI model returned an invalid format."]>>,
                  <<[lit |-> "An internal server error occurred: "],
                    [lit |-> "Out of range float values are not JSON compliant"]>>}
           /\ \A n \in 1..Len(Outcome(r).detail) :
                 Outcome(r).detail[n] # [raw |-> replied[r][1].text]

C6_Witness ==
    \E r \in Requests :
        /\ Done(r)
        /\ replied[r] = <<Response(Take(Wrap("tagged lines", ObjectNested), 15))>>
        /\ Outcome(r).status = 500
        /\ Outcome(r).detail = <<[lit |-> "The AI model returned an invalid format."]>>

\* C7: a valid JSON text without fence markers decodes to the same object
\* bare and wrapped in json-tagged fences, with or without newlines and
\* surrounding whitespace: in each case the response is the value it denotes.
C7_FencedDecodesAsBare ==
    \A r \in Requests :
        (Done(r) /\ replied[r] # <<>> /\ replied[r][1].has_text)
        => \A j \in CleanObjects \cup CleanNonObjects :
             \A w \in {"bare", "tagged", "tagged lines", "tagged padded"} :
                replied[r][1].text = Wrap(w, j)
                => (IsValidJSON(j) /\ ~Contains(j, Fence)
                      /\ sent[r] = <<[status |-> 200, body |-> Denotes(j), detail |-> <<>>]>>)

C7_Witness ==
    \E r \in Requests :
        /\ Done(r)
        /\ replied[r] = <<Response(Wrap("tagged padded", ObjectNested))>>
        /\ Outcome(r).status = 200
        /\ Outcome(r).body = Denotes(ObjectNested)

\* The model was invoked for the request with at least one page image.
SentImages(r) == Len(calls[r]) = 1 /\ Len(calls[r][1]) > 1

\* C8: every HTTP 200 body is a JSON object (a dict). Stated for the requests
\* whose payload held an image, so that a violation does not rest on the
\* empty PDF of C2.
C8_BodyIsObject ==
    \A r \in Requests :
        (Done(r) /\ SentImages(r) /\ Len(sent[r]) = 1 /\ Outcome(r).status = 200)
        => Outcome(r).body.t = "dict"

\* C9: a reply that is a valid JSON object, bare or wrapped in fences, is
\* answered with exactly the object the JSON text denotes, also when a string
\* value holds a fence marker. Stated, as C8, for the requests whose payload
\* held an image.
C9_ObjectReturnedUnchanged ==
    \A r \in Requests :
        (Done(r) /\ SentImages(r) /\ replied[r] # <<>> /\ replied[r][1].has_text)
        => \A j \in CleanObjects \cup FencedObjects :
             \A w \in Wrappers :
                replied[r][1].text = Wrap(w, j)
                => sent[r] = <<[status |-> 200, body |-> Denotes(j), detail |-> <<>>]>>

\* C10: under every interleaving each request's payload is determined by its
\* own upload (the unmodified instruction, then its own images) and its
\* response by its own upload and the reply it was given itself.
C10_RequestsIndependent ==
    \A r \in Requests :
        /\ \A k \in 1..Len(calls[r]) :
              calls[r][k] = <<SYSTEM_PROMPT>> \o ExpectedImages(file[r])
        /\ Len(replied[r]) <= 1
        /\ (Done(r) /\ replied[r] # <<>>) => sent[r] = <<DecodeOutcome(replied[r][1])>>
        /\ (pc[r] = "decode") => response[r] = replied[r][1]
        /\ (pc[r] \in {"open_pdf", "render", "open_image", "call", "decode"})
              => /\ file_content[r] = file[r].content
                 /\ Len(model_content[r]) >= 1
                 /\ model_content[r] =
                       Take(<<SYSTEM_PROMPT>> \o ExpectedImages(file[r]), Len(model_content[r]))

C10_Witness ==
    \E r, q \in Requests :
        /\ r # q
        /\ Done(r) /\ Done(q)
        /\ file[r] = UploadFile("application/pdf", PdfBytes(<<"A", "B">>))
        /\ file[q] = UploadFile("image/png", ImageBytes("B"))
        /\ Len(calls[r]) = 1 /\ Len(calls[q]) = 1
        /\ replied[r] = <<Response(ObjectA1)>>
        /\ replied[q] = <<Response(Wrap("tagged lines", EmptyObject))>>
        /\ Outcome(r) = JSONResponse(Denotes(ObjectA1))
        /\ Outcome(q) = JSONResponse(Denotes(EmptyObject))

====
